---- MODULE Spec2Model ----
(***************************************************************************)
(* ldap-bridged: an LDAP group -> SCIM service provider bridge.            *)
(*                                                                         *)
(* The module models                                                       *)
(*   - the mapping store (internal/db/users.go): three bolt buckets        *)
(*     written inside one write transaction;                               *)
(*   - computeChanges (internal/idp/main.go): the membership delta;        *)
(*   - the membership checker, the forwarding worker handleUpdates, the    *)
(*     reconciler's event loop bridge.run and startup bridge.Sync          *)
(*     (the bridge's main package).                                        *)
(*                                                                         *)
(* Specifications:                                                         *)
(*   SpecCC     computeChanges applied to arbitrary member lists           *)
(*   SpecStore  Users.Add / Users.Delete step by step, with a reader       *)
(*   SpecSync   bridge.Sync run alone from arbitrary G, S and M            *)
(*   SpecLoop   the event loop fed arbitrary Added / Removed events        *)
(*   Spec       the whole daemon: main, watcher, forwarder, event loop     *)
(*   SpecRun    the daemon once Sync has returned (SpecRunLive: scheduled) *)
(*   SpecStop   SpecRun with LDAPProvider.Stop                             *)
(*   SpecTerm   SpecRun with the interrupt, bridge.Stop and the exit       *)
(*   SpecPoll   SpecRun with a directory whose entry count changes         *)
(***************************************************************************)
EXTENDS Integers, Sequences, FiniteSets, TLC

VARIABLES
    cc,        \* SpecCC: input lists and result of computeChanges
    store,     \* committed content of the bolt file: members, guids, dns
    stx,       \* SpecStore: the write transaction in progress (or NoTx)
    sop,       \* SpecStore: the Users operation in progress and its position
    obs,       \* SpecStore: what the last read transaction saw
    group,     \* the directory: entries the group search matches, and the first
               \* entry's member DNs and modifyTimestamp
    sp,        \* the users on the service provider: GUID -> userName
    dryRun,    \* TRUE: the in-memory fake SP client; FALSE: the HTTP client
    failed,    \* history: some IdP, SP or store call has returned an error
    main,      \* the main goroutine: its position in main / bridge.Sync
    op,        \* the bridge.Add / bridge.Del call in progress, per goroutine
    chk,       \* groupMembershipChecker: prev, and its blocked channel send
    t2,        \* handleUpdates: the DNs of the event still to be sent
    spLog,     \* history: the mutating calls made on the SP
    hist,      \* history: the last Added(dn) the event loop processed
    input,     \* history: the group, SP list and store the run started from
    idp,       \* LDAPProvider: the watcher, the connection and its channels
    chkLog     \* history: the last Check call, and what the event loop was told

storeVars == <<stx, sop, obs>>
bridgeVars == <<group, sp, dryRun, failed, main, op, chk, t2, spLog, hist, input, idp, chkLog>>
vars == <<cc, store, stx, sop, obs, group, sp, dryRun, failed, main, op, chk, t2, spLog, hist, input, idp, chkLog>>

----------------------------------------------------------------------------
(* Bounds and domains *)

MaxLen == 3                      \* longest member list given to computeChanges
MaxOps == 3                      \* mapping-store calls in one SpecStore run

DNs   == {"d1", "d2"}            \* directory entries (user DNs)
CCDns == {"d1", "d2", "d3"}      \* member values given to computeChanges
GuidSeq == <<"g1", "g2", "g3">>  \* GUIDs, in the order a live SP hands them out
GUIDs == {GuidSeq[i] : i \in DOMAIN GuidSeq}

Range(f) == {f[x] : x \in DOMAIN f}

\* the bridge's variables in a specification that does not run the bridge
BridgeUnused ==
    /\ group = "unused" /\ sp = "unused" /\ dryRun = "unused" /\ failed = "unused"
    /\ main = "unused" /\ op = "unused" /\ chk = "unused" /\ t2 = "unused"
    /\ spLog = "unused" /\ hist = "unused" /\ input = "unused" /\ idp = "unused"
    /\ chkLog = "unused"

----------------------------------------------------------------------------
(* bolt buckets: byte-string keyed maps *)

EmptyBucket == [k \in {} |-> ""]

\* Bucket.Get: nil (the empty string once converted) for a missing key
BucketGet(b, k) == IF k \in DOMAIN b THEN b[k] ELSE ""

\* Bucket.Put: ErrKeyRequired for an empty key
BucketPutErr(k) == k = ""

BucketPut(b, k, v) == [x \in DOMAIN b \cup {k} |-> IF x = k THEN v ELSE b[x]]

\* Bucket.Delete: removing a missing key is no error
BucketDelete(b, k) == [x \in DOMAIN b \ {k} |-> b[x]]

EmptyStore == [members |-> EmptyBucket, guids |-> EmptyBucket, dns |-> EmptyBucket]

\* json.Marshal / json.Unmarshal of a scim.User (the fields the bridge reads)
jsonMarshal(user) == <<user.id, user.userName>>
jsonUnmarshal(buf) == [id |-> buf[1], userName |-> buf[2]]

----------------------------------------------------------------------------
(* Users: the writes of Add and Delete, inside a transaction t *)

AddPutMembers(t, dn, user) == [t EXCEPT !.members = BucketPut(@, user.id, jsonMarshal(user))]
AddPutGuidIdx(t, dn, user) == [t EXCEPT !.guids = BucketPut(@, user.id, dn)]
AddPutDnIdx(t, dn, user)   == [t EXCEPT !.dns = BucketPut(@, dn, user.id)]

\* Users.Add as one call on a committed state s: [err, store]
UsersAdd(s, dn, user) ==
    IF BucketPutErr(user.id) THEN [err |-> TRUE, store |-> s]
    ELSE IF BucketPutErr(dn) THEN [err |-> TRUE, store |-> s]
    ELSE [err |-> FALSE,
          store |-> AddPutDnIdx(AddPutGuidIdx(AddPutMembers(s, dn, user), dn, user), dn, user)]

DelDnIdxByGuid(t, dn, guid) == [t EXCEPT !.dns = BucketDelete(@, guid)]

DelMembers(t, dn, guid) == [t EXCEPT !.members = BucketDelete(@, guid)]
DelDnIdx(t, dn, guid)   == [t EXCEPT !.dns = BucketDelete(@, dn)]
DelGuidIdx(t, dn, guid) == [t EXCEPT !.guids = BucketDelete(@, guid)]

\* Users.Delete as one call on a committed state s
UsersDelete(s, dn, guid) == DelGuidIdx(DelDnIdx(DelMembers(s, dn, guid), dn, guid), dn, guid)

UsersGetGUID(s, dn) == BucketGet(s.dns, dn)
UsersGetDN(s, guid) == BucketGet(s.guids, guid)

\* the orders in which `for dn := range m` can visit the keys of a map
Orderings(S) == {q \in [1..Cardinality(S) -> S] : Range(q) = S}

\* Users.List: list := make([]scim.User, 0), one append for each record that
\* members.ForEach visits
UsersList(s) ==
    LET q == CHOOSE q \in Orderings(DOMAIN s.members) : TRUE
    IN [i \in DOMAIN q |-> jsonUnmarshal(s.members[q[i]])]

----------------------------------------------------------------------------
(* computeChanges *)

\* the lists of length <= n over S
ListsUpTo(S, n) == UNION {[1..k -> S] : k \in 0..n}

\* the key sets of the maps `added` and `removed` when the loops are done
ChangedKeysSwapped(before, after) ==
    LET bs == Range(before)
        as == Range(after)
    IN [added |-> as \ bs, removed |-> as]

ChangedKeys(before, after) ==
    LET bs == Range(before)
        as == Range(after)
        added == {dn \in as : dn \notin bs}
        removed == {dn \in bs : dn \notin as}
    IN [added |-> added, removed |-> removed]

CCInit ==
    /\ cc \in [before : ListsUpTo(CCDns, MaxLen), after : ListsUpTo(CCDns, MaxLen),
               pc : {"call"}, added : {<<>>}, removed : {<<>>}]
    /\ store = EmptyStore
    /\ stx = "NoTx"
    /\ sop = "unused"
    /\ obs = "unused"
    /\ BridgeUnused

computeChanges ==
    /\ cc.pc = "call"
    /\ LET k == ChangedKeys(cc.before, cc.after)
       IN \E a \in Orderings(k.added), r \in Orderings(k.removed) :
            cc' = [cc EXCEPT !.pc = "done", !.added = a, !.removed = r]
    /\ UNCHANGED <<store, storeVars, bridgeVars>>

CCNext == computeChanges

SpecCC == CCInit /\ [][CCNext]_vars

\* C6: for any before/after member lists, in any order and with repetitions,
\* the added list is, as a set, after \ before and the removed list is, as a
\* set, before \ after.
C6_DeltaIsSetDifference ==
    cc.pc = "done" =>
        /\ Range(cc.added) = Range(cc.after) \ Range(cc.before)
        /\ Range(cc.removed) = Range(cc.before) \ Range(cc.after)

\* a call with repeated and reordered members whose delta is non-empty both ways
C6_Witness ==
    /\ cc.pc = "done"
    /\ Len(cc.before) = 3 /\ Cardinality(Range(cc.before)) = 2
    /\ Len(cc.after) = 3 /\ Cardinality(Range(cc.after)) = 2
    /\ cc.added # <<>> /\ cc.removed # <<>>

----------------------------------------------------------------------------
(* SpecStore: Users.Add and Users.Delete one statement at a time.           *)
(* A write transaction works on its own copy of the buckets; Commit makes   *)
(* the copy the committed content, Rollback drops it.  Read transactions    *)
(* (GetGUID, GetDN, List) see the committed content.                        *)

SDns   == DNs \cup {""}          \* arguments given to the store: any string
SGuids == {"g1", "g2", ""}

SUser(guid) == [id |-> guid, userName |-> "u1"]

\* Users.Add, from the statement at `pc` with transaction content t:
\* the next position and the transaction's content there
AddStepCommitOnError(pc, t, dn, user) ==
    CASE pc = "members"  -> IF BucketPutErr(user.id) THEN [pc |-> "commit", tx |-> t]
                            ELSE [pc |-> "guidIdx", tx |-> AddPutMembers(t, dn, user)]
      [] pc = "guidIdx"  -> IF BucketPutErr(user.id) THEN [pc |-> "commit", tx |-> t]
                            ELSE [pc |-> "dnIdx", tx |-> AddPutGuidIdx(t, dn, user)]
      [] pc = "dnIdx"    -> IF BucketPutErr(dn) THEN [pc |-> "commit", tx |-> t]
                            ELSE [pc |-> "commit", tx |-> AddPutDnIdx(t, dn, user)]

AddStep(pc, t, dn, user) ==
    CASE pc = "members"  -> IF BucketPutErr(user.id) THEN [pc |-> "rollback", tx |-> t]
                            ELSE [pc |-> "guidIdx", tx |-> AddPutMembers(t, dn, user)]
      [] pc = "guidIdx"  -> IF BucketPutErr(user.id) THEN [pc |-> "rollback", tx |-> t]
                            ELSE [pc |-> "dnIdx", tx |-> AddPutGuidIdx(t, dn, user)]
      [] pc = "dnIdx"    -> IF BucketPutErr(dn) THEN [pc |-> "rollback", tx |-> t]
                            ELSE [pc |-> "commit", tx |-> AddPutDnIdx(t, dn, user)]

\* Users.Delete, likewise; the errors of Bucket.Delete are not looked at
DeleteStep(pc, t, dn, guid) ==
    CASE pc = "delMembers" -> [pc |-> "delDnIdx", tx |-> DelMembers(t, dn, guid)]
      [] pc = "delDnIdx"   -> [pc |-> "delGuidIdx", tx |-> DelDnIdx(t, dn, guid)]
      [] pc = "delGuidIdx" -> [pc |-> "commit", tx |-> DelGuidIdx(t, dn, guid)]

\* GetGUID / GetDN with the found-nothing check the code has commented out
ReadCallNotFound(fn, s, k, ioErr) ==
    LET v == IF fn = "GetGUID" THEN UsersGetGUID(s, k) ELSE UsersGetDN(s, k)
    IN IF ioErr \/ v = "" THEN [val |-> "", err |-> TRUE] ELSE [val |-> v, err |-> FALSE]

\* GetGUID(k) / GetDN(k) as a call: (string, error)
ReadCall(fn, s, k, ioErr) ==
    IF ioErr THEN [val |-> "", err |-> TRUE]
    ELSE [val |-> IF fn = "GetGUID" THEN UsersGetGUID(s, k) ELSE UsersGetDN(s, k),
          err |-> FALSE]

NoRead == [fn |-> "none", arg |-> "", ioErr |-> FALSE, ret |-> [val |-> "", err |-> FALSE]]

Idle(n, res, kind, dn, guid, pre) ==
    [pc |-> "idle", n |-> n, res |-> res, kind |-> kind, dn |-> dn, guid |-> guid, pre |-> pre]

StoreInit ==
    /\ store = EmptyStore               \* Prepare: the three buckets exist, empty
    /\ stx = "NoTx"
    /\ sop = Idle(0, "none", "none", "", "", EmptyStore)
    /\ obs = [n |-> 0, view |-> EmptyStore, call |-> NoRead]
    /\ cc = "unused"
    /\ BridgeUnused

\* db.Begin(true) at the head of Users.Add(dn, user)
StoreAddBegin ==
    /\ sop.pc = "idle" /\ sop.n < MaxOps
    /\ \E dn \in SDns, guid \in SGuids :
         sop' = [pc |-> "members", n |-> sop.n + 1, res |-> "none", kind |-> "Add",
                 dn |-> dn, guid |-> guid, pre |-> store]
    /\ stx' = store
    /\ UNCHANGED <<store, obs, cc, bridgeVars>>

\* members.Put, guidIdx.Put, dnIdx.Put
StoreAddStep ==
    /\ sop.kind = "Add" /\ sop.pc \in {"members", "guidIdx", "dnIdx"}
    /\ LET r == AddStep(sop.pc, stx, sop.dn, SUser(sop.guid))
       IN /\ sop' = [sop EXCEPT !.pc = r.pc]
          /\ stx' = r.tx
    /\ UNCHANGED <<store, obs, cc, bridgeVars>>

\* db.Begin(true) at the head of Users.Delete(user)
StoreDeleteBegin ==
    /\ sop.pc = "idle" /\ sop.n < MaxOps
    /\ \E dn \in SDns, guid \in SGuids :
         sop' = [pc |-> "delMembers", n |-> sop.n + 1, res |-> "none", kind |-> "Delete",
                 dn |-> dn, guid |-> guid, pre |-> store]
    /\ stx' = store
    /\ UNCHANGED <<store, obs, cc, bridgeVars>>

StoreDeleteStep ==
    /\ sop.kind = "Delete" /\ sop.pc \in {"delMembers", "delDnIdx", "delGuidIdx"}
    /\ LET r == DeleteStep(sop.pc, stx, sop.dn, sop.guid)
       IN /\ sop' = [sop EXCEPT !.pc = r.pc]
          /\ stx' = r.tx
    /\ UNCHANGED <<store, obs, cc, bridgeVars>>

\* tx.Commit succeeds: the transaction's content becomes the committed content
StoreCommit ==
    /\ sop.pc = "commit"
    /\ store' = stx
    /\ stx' = "NoTx"
    /\ sop' = [sop EXCEPT !.pc = "idle", !.res = "ok"]
    /\ UNCHANGED <<obs, cc, bridgeVars>>

\* tx.Commit fails, or an early return: the deferred tx.Rollback drops the copy
StoreRollback ==
    /\ sop.pc \in {"commit", "rollback"}
    /\ stx' = "NoTx"
    /\ sop' = [sop EXCEPT !.pc = "idle", !.res = "err"]
    /\ UNCHANGED <<store, obs, cc, bridgeVars>>

\* a read transaction of a concurrent reader: GetGUID(k) or GetDN(k), with
\* db.Begin(false) failing or not; obs.view is the content the transaction sees
StoreRead ==
    /\ \E fn \in {"GetGUID", "GetDN"}, ioErr \in BOOLEAN :
       \E k \in (IF ioErr THEN {""} ELSE IF fn = "GetGUID" THEN SDns ELSE SGuids) :
         obs' = [n |-> sop.n, view |-> store,
                 call |-> [fn |-> fn, arg |-> k, ioErr |-> ioErr,
                           ret |-> ReadCall(fn, store, k, ioErr)]]
    /\ UNCHANGED <<store, stx, sop, cc, bridgeVars>>

\* the process dies and the file is opened again: an open transaction is lost
StoreReopen ==
    /\ sop.pc # "idle"
    /\ stx' = "NoTx"
    /\ sop' = [sop EXCEPT !.pc = "idle", !.res = "crash"]
    /\ UNCHANGED <<store, obs, cc, bridgeVars>>

StoreNext ==
    \/ StoreAddBegin \/ StoreAddStep \/ StoreDeleteBegin \/ StoreDeleteStep
    \/ StoreCommit \/ StoreRollback \/ StoreRead \/ StoreReopen

SpecStore == StoreInit /\ [][StoreNext]_vars

\* what the operation recorded in sop makes of the content it started from
SopPost ==
    IF sop.kind = "Add" THEN UsersAdd(sop.pre, sop.dn, SUser(sop.guid)).store
    ELSE IF sop.kind = "Delete" THEN UsersDelete(sop.pre, sop.dn, sop.guid)
    ELSE sop.pre

\* C3 (as stated): after any sequence of Add and Delete calls with arbitrary
\* arguments the committed indices are paired (every dn -> g has g -> dn) and
\* members has a record for exactly the GUIDs that appear in the indices.
C3_IndicesPaired ==
    /\ \A dn \in DOMAIN store.dns : UsersGetDN(store, store.dns[dn]) = dn
    /\ DOMAIN store.members = DOMAIN store.guids \cup Range(store.dns)

\* C4: while an Add or Delete runs, and after it has returned or failed, the
\* committed content (what any reader sees) is the content before the call or
\* the content with all of the call's writes; a failed call leaves the former.
C4_NoneOrAll ==
    /\ store \in {sop.pre, SopPost}
    /\ obs.n = sop.n => obs.view \in {sop.pre, SopPost}
    /\ sop.res \in {"err", "crash"} => store = sop.pre
    /\ sop.res = "ok" => store = SopPost

\* a reader ran while the transaction held only some of the three writes
C4_Witness ==
    /\ sop.kind = "Add" /\ sop.pc = "dnIdx"
    /\ sop.guid \in DOMAIN stx.guids /\ sop.dn \notin DOMAIN stx.dns
    /\ obs.n = sop.n /\ obs.view = sop.pre /\ obs.view # SopPost

\* an Add that failed at its third write after two writes were made
C4_WitnessFailed ==
    /\ sop.kind = "Add" /\ sop.res = "err" /\ sop.dn = "" /\ sop.guid # ""
    /\ store = sop.pre

----------------------------------------------------------------------------
(* The directory, the service provider and the values the bridge handles *)

MaxMods == 2                     \* modifications of the group in one run
MaxEntries == 2                  \* entries the group search can match

UserNames == {"u1", "u2", "ux"}  \* ux: an SP user with no directory entry

\* the uid attribute of the directory entry dn
Uid(dn) == IF dn = "d1" THEN "u1" ELSE "u2"

\* mapEntry: the SCIM user of a directory entry (no id yet)
mapEntry(dn) == [id |-> "", userName |-> Uid(dn)]

\* LDAPProvider.FetchUID: the DNs of the entries whose uid is userName
FetchUID(userName) == {dn \in DNs : Uid(dn) = userName}

\* a search result with no entry
NoResult == [n |-> 0, members |-> {}, mts |-> 0]

\* p.conn.Search(p.sr): the number of entries found, and the members and the
\* modifyTimestamp of Entries[0]
Search(g) == IF g.n = 0 THEN NoResult ELSE g

isMemberOfAny(list, candidate) == TRUE

isMember(list, candidate) == candidate \in list

\* base64(sha256(userName)): one GUID per user name
FakeGuid(userName) ==
    IF userName = "u1" THEN "g1" ELSE IF userName = "u2" THEN "g2" ELSE "g3"

SpUsers(s) == {[id |-> g, userName |-> s[g]] : g \in DOMAIN s}

ZeroUser == [id |-> "", userName |-> ""]

\* fakeAPIClient.Add: [err, guid, sp]
FakeAddBySize(s, user) ==
    LET guid == GuidSeq[Cardinality(DOMAIN s) + 1]
    IN [err |-> FALSE, guid |-> guid, sp |-> BucketPut(s, guid, user.userName)]

FakeAdd(s, user) ==
    LET guid == FakeGuid(user.userName)
    IN [err |-> FALSE, guid |-> guid, sp |-> BucketPut(s, guid, user.userName)]

\* fakeAPIClient.Del
FakeDel(s, guid) == [err |-> FALSE, sp |-> BucketDelete(s, guid)]

\* fakeAPIClient.List: len(store) zero-value slots, then the users
FakeList(s) ==
    LET n == Cardinality(DOMAIN s)
        q == CHOOSE q \in Orderings(SpUsers(s)) : TRUE
    IN [i \in 1..(n + n) |-> IF i <= n THEN ZeroUser ELSE q[i - n]]

\* apiClient.Add against the SP: 201 with the id the SP chose
LiveAddDuplicate(s, user, fresh) ==
    [err |-> FALSE, guid |-> fresh, sp |-> BucketPut(s, fresh, user.userName)]

\* apiClient.Add against the SP: 201 with the id the SP chose, or a status
\* other than 201 (409 for a userName that is already provisioned)
LiveAdd(s, user, fresh) ==
    IF user.userName \in Range(s) THEN [err |-> TRUE, guid |-> "", sp |-> s]
    ELSE [err |-> FALSE, guid |-> fresh, sp |-> BucketPut(s, fresh, user.userName)]

\* apiClient.Del: 204, or another status (404 for an unknown GUID)
LiveDel(s, guid) ==
    IF guid \in DOMAIN s THEN [err |-> FALSE, sp |-> BucketDelete(s, guid)]
    ELSE [err |-> TRUE, sp |-> s]

\* apiClient.List
LiveList(s) == CHOOSE q \in Orderings(SpUsers(s)) : TRUE

NoOp == [pc |-> "none", dn |-> "", guid |-> ""]

Procs == {"main", "t3"}

\* the GUIDs some part of the system still refers to
KnownGuids ==
    DOMAIN sp \cup DOMAIN store.members \cup DOMAIN store.guids \cup Range(store.dns)
    \cup {op[p].guid : p \in Procs} \cup {u.id : u \in main.todoSp} \cup {main.cur.id}

HasFresh == \E i \in DOMAIN GuidSeq : GuidSeq[i] \notin KnownGuids

\* the next GUID the live SP hands out
FreshGuid ==
    LET i == CHOOSE i \in DOMAIN GuidSeq :
                 /\ GuidSeq[i] \notin KnownGuids
                 /\ \A j \in 1..(i-1) : GuidSeq[j] \in KnownGuids
    IN GuidSeq[i]

NextGuid == IF HasFresh THEN FreshGuid ELSE ""

\* the answer r of the SP to a POST of user, in a one-element set; with the
\* GUIDs of the model used up the live SP answers only a request it refuses
SpAnswers(user, r) ==
    IF dryRun \/ HasFresh \/ user.userName \in Range(sp) THEN {r} ELSE {}

\* LDAPProvider before Start: no connection, no watcher; the exported channels
\* Added and Removed exist from NewLDAPProvider on
NoBuf == [updates |-> <<>>, added |-> <<>>, removed |-> <<>>]

IdpNew == [w |-> "none", conn |-> "none", updates |-> "none", done |-> "none",
           added |-> "open", removed |-> "open", stopped |-> FALSE, buf |-> NoBuf]

\* LDAPProvider.Start: dial, bind, watcher started, updates and done made
IdpStarted == [w |-> "running", conn |-> "open", updates |-> "open", done |-> "open",
               added |-> "open", removed |-> "open", stopped |-> FALSE, buf |-> NoBuf]

ChanCapOne(ch) == 1

\* updates := make(chan event); Added, Removed: make(chan string): the number
\* of items a channel holds with no receiver waiting
ChanCap(ch) == 0

\* LDAPProvider.Stop: p.w.Stop(); p.conn.Close()
IdpStop(i) == [i EXCEPT !.w = "stopped", !.conn = "closed", !.stopped = TRUE]

\* the process is running: main has neither exited nor panicked
Alive == main.pc \notin {"fatal", "panic", "exit"}

\* the store is open: bridge.Stop's b.db.Close() has not run
DbOpen == main.pc \notin {"closed", "exit"}

\* the goroutines bridge.Start spawns are running
Started == Alive /\ main.pc # "start"

----------------------------------------------------------------------------
(* History variables *)

\* failed.transient: a call failed for a passing reason (network, disk);
\* failed.refused: a call was answered with an error (409, 404, empty key)
\* failed.last: the last Add of the event loop that was given up, the call it
\* was given up at, the group's modifyTimestamp then, whether Sync had returned,
\* whether the checker had seen that timestamp with no event under way, and
\* whether the DN's user was on the SP
NoAbandon == [dn |-> "", at |-> "none", mts |-> 0, synced |-> FALSE, seen |-> FALSE, onSp |-> FALSE]
NoFailure == [transient |-> FALSE, refused |-> FALSE, last |-> NoAbandon]
Transient == [failed EXCEPT !.transient = TRUE]
Failure(err, answered) ==
    IF ~err THEN failed
    ELSE IF answered THEN [failed EXCEPT !.refused = TRUE]
    ELSE [failed EXCEPT !.transient = TRUE]

Abandon(f, p, err, dn, at) ==
    IF p = "t3" /\ err
    THEN [f EXCEPT !.last = [dn |-> dn, at |-> at, mts |-> group.mts,
                             synced |-> main.pc = "wait",
                             seen |-> /\ chk.init /\ chk.pc = "idle" /\ t2.pc = "select"
                                      /\ chk.prev.mts = group.mts,
                             onSp |-> Uid(dn) \in Range(sp)]]
    ELSE f

Log(call) == IF spLog.on THEN [spLog EXCEPT !.calls = @ \cup {call}] ELSE spLog

NoHist(on) ==
    [on |-> on, phase |-> "none", dn |-> "", sp |-> EmptyBucket, store |-> EmptyStore,
     sp0 |-> EmptyBucket, store0 |-> EmptyStore]

\* the event loop takes Added(dn) or Removed(dn): a second Added(dn) or a
\* Removed(dn) right after a stored Added(dn) continues the record, any other
\* event starts a new one (sp0, store0: what an Add started from)
HistBegin(kind, dn) ==
    IF ~hist.on THEN hist
    ELSE IF hist.phase = "once" /\ hist.dn = dn
         THEN [hist EXCEPT !.phase = IF kind = "Add" THEN "second" ELSE "removing"]
         ELSE IF kind = "Add" THEN [NoHist(TRUE) EXCEPT !.sp0 = sp, !.store0 = store]
         ELSE NoHist(TRUE)

\* the event loop's Add or Del returns, leaving sp2 and store2
HistEnd(p, stored, dn, sp2, store2) ==
    IF ~hist.on \/ p # "t3" THEN hist
    ELSE IF hist.phase = "second" THEN [hist EXCEPT !.phase = "twice"]
    ELSE IF hist.phase = "removing"
         THEN IF stored THEN [hist EXCEPT !.phase = "removed"] ELSE NoHist(TRUE)
    ELSE IF stored /\ op[p].pc = "add_store"
         THEN [hist EXCEPT !.phase = "once", !.dn = dn, !.sp = sp2, !.store = store2]
    ELSE NoHist(TRUE)

----------------------------------------------------------------------------
(* bridge.Add(dn) and bridge.Del(dn), run by goroutine p, one call at a time *)

\* b.idp.Fetch(dn)
BridgeAddFetch(p) ==
    /\ Alive /\ op[p].pc = "add_fetch"
    /\ \/ /\ idp.conn = "open"
          /\ op' = [op EXCEPT ![p].pc = "add_sp"]
          /\ UNCHANGED <<failed, hist>>
       \/ /\ op' = [op EXCEPT ![p] = NoOp]            \* fetch failed: log, return
          /\ failed' = Abandon(Transient, p, TRUE, op[p].dn, "fetch")
          /\ hist' = HistEnd(p, FALSE, op[p].dn, sp, store)
    /\ UNCHANGED <<cc, store, storeVars, group, sp, dryRun, main, chk, t2, spLog, input, idp, chkLog>>

\* where bridge.Add goes after b.sp.Add returned
AddAfterSpNoReturn(err) == "add_store"

AddAfterSp(err) == IF err THEN "none" ELSE "add_store"

\* b.sp.Add(user)
BridgeAddSp(p) ==
    /\ Alive /\ op[p].pc = "add_sp"
    /\ LET user == mapEntry(op[p].dn)
           r == IF dryRun THEN FakeAdd(sp, user) ELSE LiveAdd(sp, user, NextGuid)
       IN \E res \in SpAnswers(user, r) \cup (IF dryRun THEN {} ELSE {[err |-> TRUE, guid |-> "", sp |-> sp]}) :
            /\ sp' = res.sp
            /\ failed' = Abandon(Failure(res.err, res = r), p, res.err, op[p].dn,
                                  IF res = r THEN "sp_refused" ELSE "sp")
            /\ op' = [op EXCEPT ![p] = IF AddAfterSp(res.err) = "none" THEN NoOp
                                        ELSE [pc |-> "add_store", dn |-> op[p].dn, guid |-> res.guid]]
            /\ hist' = IF AddAfterSp(res.err) = "none"
                       THEN HistEnd(p, FALSE, op[p].dn, res.sp, store) ELSE hist
            /\ spLog' = Log(<<"Add", user.userName>>)
    /\ UNCHANGED <<cc, store, storeVars, group, dryRun, main, chk, t2, input, idp, chkLog>>

\* user.ID = guid; b.users.Add(dn, user)
BridgeAddStore(p) ==
    /\ Alive /\ op[p].pc = "add_store"
    /\ LET user == [mapEntry(op[p].dn) EXCEPT !.id = op[p].guid]
           r == UsersAdd(store, op[p].dn, user)
       IN \E res \in (IF DbOpen THEN {r} ELSE {}) \cup {[err |-> TRUE, store |-> store]} :
            /\ store' = res.store                              \* Begin, Commit can fail
            /\ failed' = Abandon(Failure(res.err, res = r), p, res.err, op[p].dn, "store")
            /\ hist' = HistEnd(p, ~res.err, op[p].dn, sp, res.store)
    /\ op' = [op EXCEPT ![p] = NoOp]
    /\ UNCHANGED <<cc, storeVars, group, sp, dryRun, main, chk, t2, spLog, input, idp, chkLog>>

\* b.users.GetGUID(dn)
BridgeDelGetGUID(p) ==
    /\ Alive /\ op[p].pc = "del_get"
    /\ \/ /\ DbOpen
          /\ op' = [op EXCEPT ![p] = [pc |-> "del_sp", dn |-> op[p].dn,
                                      guid |-> UsersGetGUID(store, op[p].dn)]]
          /\ UNCHANGED <<failed, hist>>
       \/ /\ ~DbOpen                                  \* database not open: log, return
          /\ op' = [op EXCEPT ![p] = NoOp]
          /\ failed' = Transient
          /\ hist' = HistEnd(p, FALSE, op[p].dn, sp, store)
    /\ UNCHANGED <<cc, store, storeVars, group, sp, dryRun, main, chk, t2, spLog, input, idp, chkLog>>

\* where bridge.Del goes after b.sp.Del returned
DelAfterSpNoReturn(err) == "del_store"

DelAfterSp(err) == IF err THEN "none" ELSE "del_store"

\* b.sp.Del(guid)
BridgeDelSp(p) ==
    /\ Alive /\ op[p].pc = "del_sp"
    /\ LET r == IF dryRun THEN FakeDel(sp, op[p].guid) ELSE LiveDel(sp, op[p].guid)
       IN \E res \in {r} \cup (IF dryRun THEN {} ELSE {[err |-> TRUE, sp |-> sp]}) :
            /\ sp' = res.sp
            /\ failed' = Failure(res.err, res = r)
            /\ op' = [op EXCEPT ![p] = IF DelAfterSp(res.err) = "none" THEN NoOp
                                        ELSE [op[p] EXCEPT !.pc = "del_store"]]
            /\ hist' = IF DelAfterSp(res.err) = "none"
                       THEN HistEnd(p, FALSE, op[p].dn, res.sp, store) ELSE hist
    /\ spLog' = Log(<<"Del", op[p].guid>>)
    /\ UNCHANGED <<cc, store, storeVars, group, dryRun, main, chk, t2, input, idp, chkLog>>

\* b.users.Del(guid, dn)
BridgeDelStore(p) ==
    /\ Alive /\ op[p].pc = "del_store"
    /\ LET r == [err |-> FALSE, store |-> UsersDelete(store, op[p].dn, op[p].guid)]
       IN \E res \in (IF DbOpen THEN {r} ELSE {}) \cup {[err |-> TRUE, store |-> store]} :
            /\ store' = res.store                              \* Begin, Commit can fail
            /\ failed' = Failure(res.err, res = r)
            /\ hist' = HistEnd(p, ~res.err, op[p].dn, sp, res.store)
    /\ op' = [op EXCEPT ![p] = NoOp]
    /\ UNCHANGED <<cc, storeVars, group, sp, dryRun, main, chk, t2, spLog, input, idp, chkLog>>

BridgeOp(p) ==
    \/ BridgeAddFetch(p) \/ BridgeAddSp(p) \/ BridgeAddStore(p)
    \/ BridgeDelGetGUID(p) \/ BridgeDelSp(p) \/ BridgeDelStore(p)

----------------------------------------------------------------------------
(* main and bridge.Sync *)

NoUser == [id |-> "", userName |-> "", dn |-> ""]

\* b.Start(): go b.run(), b.idp.Start() (the watcher, go handleUpdates)
MainStart ==
    /\ main.pc = "start"
    /\ main' = [main EXCEPT !.pc = "list"]
    /\ idp' = IdpStarted
    /\ UNCHANGED <<cc, store, storeVars, group, sp, dryRun, failed, op, chk, t2, spLog, hist, input, chkLog>>

\* spList, err := b.sp.List(); spDns := make([]string, len(spList))
SyncList ==
    /\ main.pc = "list"
    /\ \/ /\ LET spList == Range(IF dryRun THEN FakeList(sp) ELSE LiveList(sp))
             IN main' = [main EXCEPT !.pc = "search", !.todoSp = spList,
                                     !.spDns = IF spList = {} THEN {} ELSE {""}]
          /\ UNCHANGED failed
       \/ /\ ~dryRun                                  \* the request failed
          /\ main' = [main EXCEPT !.pc = "fatal"]
          /\ failed' = Transient
    /\ UNCHANGED <<cc, store, storeVars, group, sp, dryRun, op, chk, t2, spLog, hist, input, idp, chkLog>>

\* idpRes, err := b.idp.Search(nil); memberDns := group.GetAttributeValues("member")
SyncSearch ==
    /\ main.pc = "search"
    /\ \/ /\ main' = IF Search(group).n = 0
                     THEN [main EXCEPT !.pc = "panic"]      \* Entries[0]: index out of range
                     ELSE [main EXCEPT !.pc = "loop", !.memberDns = group.members,
                                       !.todoDn = group.members]
          /\ UNCHANGED failed
       \/ /\ main' = [main EXCEPT !.pc = "fatal"]      \* the search failed
          /\ failed' = Transient
    /\ UNCHANGED <<cc, store, storeVars, group, sp, dryRun, op, chk, t2, spLog, hist, input, idp, chkLog>>

\* first loop, one spUser: dn, err := b.users.GetDN(spUser.ID) and the branch taken
SyncSpUser ==
    /\ main.pc = "loop" /\ op.main.pc = "none" /\ main.todoSp # {}
    /\ \E spUser \in main.todoSp :
         LET dn == UsersGetDN(store, spUser.id)
             rest == main.todoSp \ {spUser}
         IN IF dn = ""
            THEN /\ main' = [main EXCEPT !.pc = "fetchuid", !.todoSp = rest,
                                         !.cur = [id |-> spUser.id, userName |-> spUser.userName, dn |-> ""]]
                 /\ op' = op
            ELSE IF ~isMember(main.memberDns, dn)
            THEN /\ main' = [main EXCEPT !.todoSp = rest]
                 /\ op' = [op EXCEPT !.main = [pc |-> "del_get", dn |-> dn, guid |-> ""]]
            ELSE /\ main' = [main EXCEPT !.todoSp = rest, !.spDns = @ \cup {dn}]
                 /\ op' = op
    /\ UNCHANGED <<cc, store, storeVars, group, sp, dryRun, failed, chk, t2, spLog, hist, input, idp, chkLog>>

\* idpRes, err := b.idp.FetchUID(spUser.UserName); idpUser := idpRes[0]
SyncFetchUID ==
    /\ main.pc = "fetchuid"
    /\ \/ /\ LET idpRes == FetchUID(main.cur.userName)
             IN IF idpRes = {}
                THEN main' = [main EXCEPT !.pc = "panic"]      \* index out of range
                ELSE \E idpUser \in idpRes :
                        main' = [main EXCEPT !.pc = "bind", !.cur.dn = idpUser]
          /\ UNCHANGED failed
       \/ /\ main' = [main EXCEPT !.pc = "fatal"]      \* the search failed
          /\ failed' = Transient
    /\ UNCHANGED <<cc, store, storeVars, group, sp, dryRun, op, chk, t2, spLog, hist, input, idp, chkLog>>

\* b.users.Add(idpUser.DN, spUser): the error is dropped
SyncBind ==
    /\ main.pc = "bind"
    /\ LET r == UsersAdd(store, main.cur.dn, [id |-> main.cur.id, userName |-> main.cur.userName])
       IN \E res \in {r, [err |-> TRUE, store |-> store]} :
            /\ store' = res.store
            /\ failed' = Failure(res.err, res = r)
    /\ main' = [main EXCEPT !.pc = "loop", !.cur = NoUser]
    /\ UNCHANGED <<cc, storeVars, group, sp, dryRun, op, chk, t2, spLog, hist, input, idp, chkLog>>

\* second loop, one memberDn: guid, err := b.users.GetGUID(memberDn) and the branch
SyncMember ==
    /\ main.pc = "loop" /\ op.main.pc = "none" /\ main.todoSp = {} /\ main.todoDn # {}
    /\ \E memberDn \in main.todoDn :
         LET guid == UsersGetGUID(store, memberDn)
             rest == main.todoDn \ {memberDn}
         IN IF guid = ""
            THEN /\ main' = [main EXCEPT !.todoDn = rest]
                 /\ op' = [op EXCEPT !.main = [pc |-> "add_fetch", dn |-> memberDn, guid |-> ""]]
            ELSE IF ~isMember(main.spDns, memberDn)
            THEN /\ main' = [main EXCEPT !.pc = "refetch", !.todoDn = rest, !.cur.dn = memberDn]
                 /\ op' = op
            ELSE /\ main' = [main EXCEPT !.todoDn = rest]
                 /\ op' = op
    /\ UNCHANGED <<cc, store, storeVars, group, sp, dryRun, failed, chk, t2, spLog, hist, input, idp, chkLog>>

\* entry, err := b.idp.Fetch(memberDn); user, err := b.mapEntry(entry)
SyncRefetch ==
    /\ main.pc = "refetch"
    /\ \/ /\ main' = [main EXCEPT !.pc = "readd"]
          /\ UNCHANGED failed
       \/ /\ main' = [main EXCEPT !.pc = "fatal"]      \* the fetch failed
          /\ failed' = Transient
    /\ UNCHANGED <<cc, store, storeVars, group, sp, dryRun, op, chk, t2, spLog, hist, input, idp, chkLog>>

\* b.sp.Add(user): the GUID and the error are dropped
SyncReAdd ==
    /\ main.pc = "readd"
    /\ LET user == mapEntry(main.cur.dn)
           r == IF dryRun THEN FakeAdd(sp, user) ELSE LiveAdd(sp, user, NextGuid)
       IN \E res \in SpAnswers(user, r) \cup (IF dryRun THEN {} ELSE {[err |-> TRUE, guid |-> "", sp |-> sp]}) :
            /\ sp' = res.sp
            /\ failed' = Failure(res.err, res = r)
            /\ spLog' = Log(<<"Add", user.userName>>)
    /\ main' = [main EXCEPT !.pc = "loop", !.cur = NoUser]
    /\ UNCHANGED <<cc, store, storeVars, group, dryRun, op, chk, t2, hist, input, idp, chkLog>>

\* return nil; main then waits for the interrupt
SyncReturn ==
    /\ main.pc = "loop" /\ op.main.pc = "none" /\ main.todoSp = {} /\ main.todoDn = {}
    /\ main' = [main EXCEPT !.pc = "wait"]
    /\ UNCHANGED <<cc, store, storeVars, group, sp, dryRun, failed, op, chk, t2, spLog, hist, input, idp, chkLog>>

Sync ==
    \/ SyncList \/ SyncSearch \/ SyncSpUser \/ SyncFetchUID \/ SyncBind
    \/ SyncMember \/ SyncRefetch \/ SyncReAdd \/ SyncReturn

SyncDone == main.pc = "wait"

----------------------------------------------------------------------------
(* The watcher's poll, the membership checker, handleUpdates, bridge.run *)

SetToSeq(S) == CHOOSE q \in Orderings(S) : TRUE

\* what groupMembershipChecker.Check does with a result r: [prev, init, send, panic]
CheckNoBaseline(c, r) ==
    IF c.prev.mts # r.mts THEN [prev |-> r, init |-> TRUE, send |-> TRUE, panic |-> FALSE]
    ELSE [prev |-> c.prev, init |-> TRUE, send |-> FALSE, panic |-> FALSE]

CheckCountEvent(c, r) ==
    IF ~c.init THEN [prev |-> r, init |-> TRUE, send |-> FALSE, panic |-> FALSE]
    ELSE IF c.prev.n # r.n \/ c.prev.mts # r.mts
    THEN [prev |-> r, init |-> TRUE, send |-> TRUE, panic |-> FALSE]
    ELSE [prev |-> c.prev, init |-> TRUE, send |-> FALSE, panic |-> FALSE]

CheckKeepsPrev(c, r) ==
    IF ~c.init THEN [prev |-> r, init |-> TRUE, send |-> FALSE, panic |-> FALSE]
    ELSE IF c.prev.n # r.n
    THEN [prev |-> r, init |-> TRUE, send |-> FALSE, panic |-> FALSE]
    ELSE IF r.n = 0
    THEN [prev |-> c.prev, init |-> TRUE, send |-> FALSE, panic |-> TRUE]
    ELSE [prev |-> c.prev, init |-> TRUE, send |-> c.prev.mts # r.mts, panic |-> FALSE]

Check(c, r) ==
    IF ~c.init THEN [prev |-> r, init |-> TRUE, send |-> FALSE, panic |-> FALSE]   \* baseline
    ELSE IF c.prev.n # r.n
    THEN [prev |-> r, init |-> TRUE, send |-> FALSE, panic |-> FALSE]
    ELSE IF r.n = 0                                \* c.prev.Entries[0]: index out of range
    THEN [prev |-> c.prev, init |-> TRUE, send |-> FALSE, panic |-> TRUE]
    ELSE IF c.prev.mts # r.mts
    THEN [prev |-> r, init |-> TRUE, send |-> TRUE, panic |-> FALSE]
    ELSE [prev |-> c.prev, init |-> TRUE, send |-> FALSE, panic |-> FALSE]

\* chkLog.call: the result the last Check was given, the checker before it
\* (init, prev), and whether it sent an event or panicked.  chkLog.told: the
\* members of the baseline, with every DN bridge.run received on Added put in
\* and every DN it received on Removed taken out.  chkLog.skipped: some Check
\* found the number of entries changed.  chkLog.pub: the members of the
\* baseline, with the delta of every event Check has published applied
NoCall == [made |-> FALSE, r |-> NoResult, init |-> FALSE, prev |-> NoResult,
           send |-> FALSE, panic |-> FALSE]
NoChkLog(on) == [on |-> on, call |-> NoCall, told |-> {}, skipped |-> FALSE, pub |-> {}]

\* the member set S with the delta between the entries before and after applied
ApplyDelta(S, before, after) ==
    LET k == ChangedKeys(SetToSeq(before), SetToSeq(after))
    IN (S \ k.removed) \cup k.added

LogCheck(c, r, res) ==
    IF ~chkLog.on THEN chkLog
    ELSE [chkLog EXCEPT !.call = [made |-> TRUE, r |-> r, init |-> c.init, prev |-> c.prev,
                                  send |-> res.send, panic |-> res.panic],
                        !.told = IF c.init THEN @ ELSE r.members,
                        !.skipped = @ \/ (c.init /\ c.prev.n # r.n),
                        !.pub = IF ~c.init THEN r.members
                                ELSE IF res.send THEN ApplyDelta(@, c.prev.members, r.members)
                                ELSE @]

LogTold(kind, dn) ==
    IF ~chkLog.on THEN chkLog
    ELSE [chkLog EXCEPT !.told = IF kind = "Add" THEN @ \cup {dn} ELSE @ \ {dn}]

\* one poll: the search, then Check(r, nil); a failed search is only logged.
\* c.c <- event{prevEntry, nextEntry} blocks Check until the event is taken
Tick ==
    /\ Started /\ idp.w = "running" /\ chk.pc = "idle"
    /\ \/ /\ LET r == Search(group)
                 res == Check(chk, r)
                 room == Len(idp.buf.updates) < ChanCap("updates")
                 blocks == res.send /\ ~room
                 e == [before |-> chk.prev.members, after |-> r.members, tag |-> r.mts]
             IN /\ chk' = [pc |-> IF blocks THEN "send" ELSE "idle", init |-> res.init,
                           prev |-> res.prev,
                           before |-> IF blocks THEN e.before ELSE {},
                           after |-> IF blocks THEN e.after ELSE {}]
                /\ idp' = IF res.send /\ room THEN [idp EXCEPT !.buf.updates = Append(@, e)]
                          ELSE idp
                /\ main' = IF res.panic THEN [main EXCEPT !.pc = "panic"] ELSE main
                /\ chkLog' = LogCheck(chk, r, res)
          /\ <<chk, main, chkLog>>' # <<chk, main, chkLog>>
          /\ UNCHANGED failed
       \/ /\ ~failed.transient /\ failed' = Transient                   \* Check(nil, err)
          /\ UNCHANGED <<chk, idp, main, chkLog>>
    /\ UNCHANGED <<cc, store, storeVars, group, sp, dryRun, op, t2, spLog, hist, input>>

T2ReadyAlways(t) == TRUE

\* handleUpdates is at its select: the sends of the event before are all made
T2Ready(t) == t.pc = "select"

T2ChanRemovedFirst(t) ==
    IF t.removed # {} THEN "removed" ELSE IF t.added # {} THEN "added" ELSE "none"

\* for _, dn := range c.added { p.Added <- dn } comes before
\* for _, dn := range c.removed { p.Removed <- dn }: the channel handleUpdates
\* sends on next
T2Chan(t) ==
    IF t.added # {} THEN "added" ELSE IF t.removed # {} THEN "removed" ELSE "none"

\* handleUpdates sends the DNs it holds, Added first, as far as it can without
\* blocking: [t2, buf]
RECURSIVE T2Send(_, _)
T2Send(t, b) ==
    LET ch == T2Chan(t)
    IN IF ch = "none" THEN [t2 |-> [t EXCEPT !.pc = "select"], buf |-> b]
       ELSE IF Len(b[ch]) < ChanCap(ch)
       THEN LET dn == CHOOSE d \in t[ch] : TRUE
            IN T2Send([t EXCEPT ![ch] = @ \ {dn}], [b EXCEPT ![ch] = Append(@, dn)])
       ELSE [t2 |-> [t EXCEPT !.pc = "forward"], buf |-> b]

\* case e := <-c: c := computeChanges(before, after)
HandleUpdate ==
    /\ Started /\ T2Ready(t2)
    /\ chk.pc = "send" \/ idp.buf.updates # <<>>
    /\ LET blocked == chk.pc = "send"
           q == idp.buf.updates \o (IF blocked THEN <<[before |-> chk.before, after |-> chk.after,
                                                       tag |-> chk.prev.mts]>> ELSE <<>>)
           e == Head(q)
           k == ChangedKeys(SetToSeq(e.before), SetToSeq(e.after))
           n == T2Send([pc |-> "select", tag |-> e.tag, last |-> t2.tag, added |-> k.added, removed |-> k.removed],
                       [idp.buf EXCEPT !.updates = Tail(q)])
       IN /\ t2' = n.t2
          /\ idp' = [idp EXCEPT !.buf = n.buf]
          /\ chk' = IF blocked THEN [chk EXCEPT !.pc = "idle", !.before = {}, !.after = {}]
                    ELSE chk
    /\ UNCHANGED <<cc, store, storeVars, group, sp, dryRun, failed, main, op, spLog, hist, input, chkLog>>

RunCasesAddedOnly == {"added"}

\* the channels bridge.run's select receives from: b.idp.Added, b.idp.Removed
RunCases == {"added", "removed"}

\* p.Added <- dn meets case dn := <-b.idp.Added: b.Add(dn)
RunAdded ==
    /\ Started /\ op.t3.pc = "none" /\ "added" \in RunCases
    /\ idp.buf.added # <<>> \/ (t2.pc = "forward" /\ T2Chan(t2) = "added")
    /\ LET buffered == idp.buf.added # <<>>
       IN \E dn \in (IF buffered THEN {Head(idp.buf.added)} ELSE t2.added) :
            LET n == IF buffered THEN T2Send(t2, [idp.buf EXCEPT !.added = Tail(@)])
                     ELSE T2Send([t2 EXCEPT !.added = @ \ {dn}], idp.buf)
            IN /\ t2' = n.t2
               /\ idp' = [idp EXCEPT !.buf = n.buf]
               /\ op' = [op EXCEPT !.t3 = [pc |-> "add_fetch", dn |-> dn, guid |-> ""]]
               /\ hist' = HistBegin("Add", dn)
               /\ chkLog' = LogTold("Add", dn)
    /\ UNCHANGED <<cc, store, storeVars, group, sp, dryRun, failed, main, chk, spLog, input>>

\* p.Removed <- dn meets case dn := <-b.idp.Removed: b.Del(dn)
RunRemoved ==
    /\ Started /\ op.t3.pc = "none" /\ "removed" \in RunCases
    /\ idp.buf.removed # <<>> \/ (t2.pc = "forward" /\ T2Chan(t2) = "removed")
    /\ LET buffered == idp.buf.removed # <<>>
       IN \E dn \in (IF buffered THEN {Head(idp.buf.removed)} ELSE t2.removed) :
            LET n == IF buffered THEN T2Send(t2, [idp.buf EXCEPT !.removed = Tail(@)])
                     ELSE T2Send([t2 EXCEPT !.removed = @ \ {dn}], idp.buf)
            IN /\ t2' = n.t2
               /\ idp' = [idp EXCEPT !.buf = n.buf]
               /\ op' = [op EXCEPT !.t3 = [pc |-> "del_get", dn |-> dn, guid |-> ""]]
               /\ hist' = HistBegin("Del", dn)
               /\ chkLog' = LogTold("Del", dn)
    /\ UNCHANGED <<cc, store, storeVars, group, sp, dryRun, failed, main, chk, spLog, input>>

\* the directory: a member is added to or removed from the group
ModifyGroup ==
    /\ group.n >= 1 /\ group.mts < MaxMods
    /\ \E dn \in DNs :
         group' = [n |-> group.n,
                   members |-> IF dn \in group.members THEN group.members \ {dn}
                               ELSE group.members \cup {dn},
                   mts |-> group.mts + 1]
    /\ UNCHANGED <<cc, store, storeVars, sp, dryRun, failed, main, op, chk, t2, spLog, hist, input, idp, chkLog>>

----------------------------------------------------------------------------
(* Initial states *)

\* the injective partial functions from A to B
InjPartial(A, B) ==
    UNION {{f \in [X -> B] : \A x, y \in X : f[x] = f[y] => x = y} : X \in SUBSET A}

\* the store that holds the bindings b (dn -> guid), as Users.Add writes them
StoreOf(b) ==
    [members |-> [g \in Range(b) |->
                    jsonMarshal([id |-> g, userName |-> Uid(CHOOSE d \in DOMAIN b : b[d] = g)])],
     guids |-> [g \in Range(b) |-> CHOOSE d \in DOMAIN b : b[d] = g],
     dns |-> b]

GuidOf(dn) == FakeGuid(Uid(dn))

NoMain(pc) == [pc |-> pc, todoSp |-> {}, memberDns |-> {}, todoDn |-> {}, spDns |-> {}, cur |-> NoUser]

\* g: what the directory holds for the group search
BridgeInitAt(g, S, M, dr, pc) ==
    /\ group = g
    /\ sp = S
    /\ store = M
    /\ dryRun = dr
    /\ failed = NoFailure
    /\ main = NoMain(pc)
    /\ op = [p \in Procs |-> NoOp]
    /\ chk = [pc |-> "idle", init |-> FALSE, prev |-> NoResult,
              before |-> {}, after |-> {}]
    /\ t2 = [pc |-> "select", tag |-> 0, last |-> 0, added |-> {}, removed |-> {}]
    /\ input = [G |-> g.members, S |-> S, M |-> M]
    /\ idp = IF pc = "start" THEN IdpNew ELSE IdpStarted
    /\ cc = "unused" /\ stx = "unused" /\ sop = "unused" /\ obs = "unused"

\* the group search matches one entry, the group, with members G
BridgeInit(G, S, M, dr, pc) ==
    BridgeInitAt([n |-> 1, members |-> G, mts |-> 0], S, M, dr, pc)

\* the directory at startup: the group with any members, or no entry at all
SyncGroups == {[n |-> 1, members |-> G, mts |-> 0] : G \in SUBSET DNs} \cup {NoResult}

\* bridge.Sync alone, from any group, any SP list and any paired store
SyncInit ==
    /\ \E g \in SyncGroups, dr \in BOOLEAN, b \in InjPartial(DNs, GUIDs) :
         \E S \in (IF dr THEN {[g2 \in {FakeGuid(u) : u \in U} |->
                                   CHOOSE u \in U : FakeGuid(u) = g2] : U \in SUBSET UserNames}
                   ELSE InjPartial(GUIDs, UserNames)) :
            BridgeInitAt(g, S, StoreOf(b), dr, "list")
    /\ spLog = [on |-> TRUE, calls |-> {}]
    /\ hist = NoHist(FALSE)
    /\ chkLog = NoChkLog(FALSE)

SyncNext == Sync \/ BridgeOp("main")

SpecSync == SyncInit /\ [][SyncNext]_vars

\* the daemon at start: the store of an earlier run binds `bound`; the live SP
\* holds the users that run provisioned, the fake SP starts empty.  d1 and d2
\* are interchangeable, so one of each pair of mirrored states is kept.
InitShapes ==
    {x \in (SUBSET DNs) \X (SUBSET DNs) :
        /\ x[1] # {"d2"}
        /\ x[1] # {"d1"} => x[2] # {"d2"}}

Init ==
    /\ \E x \in InitShapes, dr \in BOOLEAN :
         LET G == x[1]
             bound == x[2]
             onSp == IF dr THEN {} ELSE bound
         IN BridgeInit(G, [g \in {GuidOf(d) : d \in onSp} |-> CHOOSE u \in UserNames : FakeGuid(u) = g],
                       StoreOf([d \in bound |-> GuidOf(d)]), dr, "start")
    /\ spLog = [on |-> FALSE, calls |-> {}]
    /\ hist = NoHist(FALSE)
    /\ chkLog = NoChkLog(FALSE)

Next ==
    \/ MainStart \/ Sync \/ BridgeOp("main")
    \/ Tick \/ HandleUpdate \/ RunAdded \/ RunRemoved \/ BridgeOp("t3")
    \/ ModifyGroup

Spec == Init /\ [][Next]_vars

----------------------------------------------------------------------------
(* SpecLoop: bridge.run alone, fed any Added / Removed events *)

\* any event reaches handleUpdates: any DNs to add, any DNs to remove
AnyEvent ==
    /\ T2Ready(t2) /\ op.t3.pc = "none"
    /\ \E added \in SUBSET DNs, removed \in SUBSET DNs :
         /\ added \cup removed # {}
         /\ LET n == T2Send([t2 EXCEPT !.added = added, !.removed = removed], idp.buf)
            IN t2' = n.t2 /\ idp' = [idp EXCEPT !.buf = n.buf]
    /\ UNCHANGED <<cc, store, storeVars, group, sp, dryRun, failed, main, op, chk, spLog, hist, input, chkLog>>

LoopInit ==
    /\ \E x \in InitShapes, dr \in BOOLEAN :
         LET bound == x[2]
             onSp == IF dr THEN {} ELSE bound
         IN BridgeInit({}, [g \in {GuidOf(d) : d \in onSp} |-> CHOOSE u \in UserNames : FakeGuid(u) = g],
                       StoreOf([d \in bound |-> GuidOf(d)]), dr, "wait")
    /\ spLog = [on |-> FALSE, calls |-> {}]
    /\ hist = NoHist(TRUE)
    /\ chkLog = NoChkLog(FALSE)

LoopNext == AnyEvent \/ RunAdded \/ RunRemoved \/ BridgeOp("t3")

SpecLoop == LoopInit /\ [][LoopNext]_vars

----------------------------------------------------------------------------
(* SpecRun: the daemon once Sync has returned: watcher, handleUpdates, bridge.run *)

\* Sync has returned and the watcher has not polled yet.  The store binds
\* `bound`; the live SP holds those users, the fake SP the ones Sync re-added.
RunInit ==
    /\ \E x \in InitShapes, dr \in BOOLEAN :
         LET G == x[1]
             bound == x[2]
             onSp == IF dr THEN bound \cap G ELSE bound
         IN BridgeInit(G, [g \in {GuidOf(d) : d \in onSp} |-> CHOOSE u \in UserNames : FakeGuid(u) = g],
                       StoreOf([d \in bound |-> GuidOf(d)]), dr, "wait")
    /\ spLog = [on |-> FALSE, calls |-> {}]
    /\ hist = NoHist(FALSE)
    /\ chkLog = NoChkLog(FALSE)

RunNext ==
    \/ Tick \/ HandleUpdate \/ RunAdded \/ RunRemoved \/ BridgeOp("t3")
    \/ ModifyGroup

SpecRun == RunInit /\ [][RunNext]_vars

\* the same with the goroutines scheduled: handleUpdates takes an event that is
\* offered, bridge.run receives a DN that is offered, and every call bridge.run
\* makes returns
RunFair ==
    /\ WF_vars(HandleUpdate) /\ WF_vars(RunAdded) /\ WF_vars(RunRemoved)
    /\ WF_vars(BridgeOp("t3"))

\* Sync has returned with the SP and the store holding the members of the group
LiveInit ==
    /\ \E G \in {{}, {"d1"}}, dr \in BOOLEAN :
         BridgeInit(G, [g \in {GuidOf(d) : d \in G} |-> CHOOSE u \in UserNames : FakeGuid(u) = g],
                    StoreOf([d \in G |-> GuidOf(d)]), dr, "wait")
    /\ spLog = [on |-> FALSE, calls |-> {}]
    /\ hist = NoHist(FALSE)
    /\ chkLog = NoChkLog(FALSE)

SpecRunLive == LiveInit /\ [][RunNext]_vars /\ RunFair

----------------------------------------------------------------------------
(* SpecStop: the running daemon, with LDAPProvider.Stop called at some point *)

\* p.w.Stop(); p.conn.Close()
StopIdp ==
    /\ Alive /\ ~idp.stopped
    /\ idp' = IdpStop(idp)
    /\ UNCHANGED <<cc, store, storeVars, group, sp, dryRun, failed, main, op, chk, t2, spLog, hist, input, chkLog>>

StopNext == RunNext \/ StopIdp

SpecStop == RunInit /\ [][StopNext]_vars

----------------------------------------------------------------------------
(* SpecTerm: the running daemon, interrupted at some point *)

\* <-term: SIGINT arrives and main returns
Interrupt ==
    /\ main.pc = "wait"
    /\ main' = [main EXCEPT !.pc = "stopping"]
    /\ UNCHANGED <<cc, store, storeVars, group, sp, dryRun, failed, op, chk, t2, spLog, hist, input, idp, chkLog>>

\* defer b.Stop(): b.db.Close()
BridgeStop ==
    /\ main.pc = "stopping"
    /\ main' = [main EXCEPT !.pc = "closed"]
    /\ UNCHANGED <<cc, store, storeVars, group, sp, dryRun, failed, op, chk, t2, spLog, hist, input, idp, chkLog>>

\* main has returned: the process exits, whatever the goroutines are doing
Exit ==
    /\ main.pc = "closed"
    /\ main' = [main EXCEPT !.pc = "exit"]
    /\ UNCHANGED <<cc, store, storeVars, group, sp, dryRun, failed, op, chk, t2, spLog, hist, input, idp, chkLog>>

TermNext == RunNext \/ Interrupt \/ BridgeStop \/ Exit

SpecTerm == RunInit /\ [][TermNext]_vars

----------------------------------------------------------------------------
(* SpecPoll: the running daemon, with a directory in which the number of
   entries the group search matches changes too *)

\* the directory: another entry comes to match the group search or ceases to,
\* the group is deleted, or it is created again (empty, with a new timestamp)
ChangeEntries ==
    /\ \/ /\ group.n >= 1
          /\ \E k \in (1..MaxEntries) \ {group.n} : group' = [group EXCEPT !.n = k]
       \/ /\ group.n >= 1
          /\ group' = [n |-> 0, members |-> {}, mts |-> group.mts]
       \/ /\ group.n = 0 /\ group.mts < MaxMods
          /\ group' = [n |-> 1, members |-> {}, mts |-> group.mts + 1]
    /\ UNCHANGED <<cc, store, storeVars, sp, dryRun, failed, main, op, chk, t2, spLog, hist, input, idp, chkLog>>

\* the daemon waiting for SIGINT, on the live SP, the SP and the store holding
\* the members of the group
PollInit ==
    /\ \E G \in {{}, {"d1"}}, dr \in {FALSE} :
         BridgeInit(G, [g \in {GuidOf(d) : d \in G} |-> CHOOSE u \in UserNames : FakeGuid(u) = g],
                    StoreOf([d \in G |-> GuidOf(d)]), dr, "wait")
    /\ spLog = [on |-> FALSE, calls |-> {}]
    /\ hist = NoHist(FALSE)
    /\ chkLog = NoChkLog(TRUE)

PollNext == RunNext \/ ChangeEntries

SpecPoll == PollInit /\ [][PollNext]_vars

----------------------------------------------------------------------------
(* Claims *)

C5_WitnessLive ==
    /\ hist.phase = "twice" /\ ~dryRun /\ failed.refused

\* the users the SP holds are the users of the group's members
SpMirrorsGroup == Range(sp) = {Uid(dn) : dn \in group.members}

\* nothing is in progress and the checker's prev is the group as it is now:
\* no step but a modification of the group changes anything from here
Quiescent ==
    /\ SyncDone /\ op.t3.pc = "none" /\ op.main.pc = "none"
    /\ t2.pc = "select" /\ chk.pc = "idle"
    /\ chk.init /\ chk.prev = group

\* C1 (as stated): with startup sync complete and every call successful, once the
\* group stops changing the SP comes to hold exactly the users of the group's
\* members.  Stated on the states in which nothing further can happen.
C1_EventuallyMirrors ==
    (Quiescent /\ ~failed.transient /\ ~failed.refused) => SpMirrorsGroup

\* C2 (as stated, for the runs of Sync in which no call failed): when Sync has
\* returned, the DNs of the group are the DNs GetDN gives for the users on the SP.
C2_SyncMirrorsGroup ==
    (SyncDone /\ failed = NoFailure) =>
        group.members = {UsersGetDN(store, s.id) : s \in SpUsers(sp)}

\* C7 (as stated): the event loop runs no Add or Del before Sync has returned.
C7_SyncBeforeLoop ==
    op.t3.pc # "none" => SyncDone

\* the main goroutine is inside a reconciler operation or a write of Sync
MainBusy == op.main.pc # "none" \/ main.pc \in {"bind", "readd"}

\* C8 (as stated): at most one reconciler Add / Del is in progress, and nothing
\* but the event loop writes the store or calls the SP while the loop runs.
C8_OneOperation ==
    /\ Cardinality({p \in Procs : op[p].pc # "none"}) <= 1
    /\ ~(MainBusy /\ op.t3.pc # "none")

\* scenario 3: G = {d1}, the SP holds g1 / u1, the store is empty
Scenario3 ==
    /\ input = [G |-> {"d1"}, S |-> [g \in {"g1"} |-> "u1"], M |-> EmptyStore]
    /\ ~dryRun

\* C10 (as stated): from scenario 3 Sync ends with d1 and g1 bound both ways and
\* with no Add or Del call made on the SP.
C10_BindOnly ==
    (Scenario3 /\ SyncDone /\ ~failed.transient) =>
        /\ UsersGetGUID(store, "d1") = "g1"
        /\ UsersGetDN(store, "g1") = "d1"
        /\ spLog.calls = {}

\* goroutine p takes a step of Del that leaves the given position
DelStepFrom(p, pc) == op[p].pc = pc /\ op'[p] # op[p]

\* C9: Del's call of SP.Delete leaves the mapping store as it is, whether it
\* succeeds or fails; a Del whose SP.Delete failed ends there; and when Del removes
\* the mapping of a DN, the GUID it was bound to is not on the SP.
C9_DelAfterSpConfirms ==
    [][\A p \in Procs :
         /\ DelStepFrom(p, "del_sp") => store' = store
         /\ (DelStepFrom(p, "del_sp") /\ op'[p].pc = "del_store") =>
                op[p].guid \notin DOMAIN sp'
         /\ (DelStepFrom(p, "del_store") /\ store' # store) =>
                op[p].guid \notin DOMAIN sp']_vars

\* scenario "SP stale": G empty, the SP holds g1 / u1, the store binds d1 and g1
Scenario11 ==
    /\ input = [G |-> {}, S |-> [g \in {"g1"} |-> "u1"], M |-> StoreOf([d \in {"d1"} |-> "g1"])]
    /\ ~dryRun

\* C11: from the scenario "SP stale", with every call successful, Sync returns
\* with no user on the SP and nothing in the mapping store.
C11_StaleRemoved ==
    (Scenario11 /\ SyncDone /\ failed = NoFailure) =>
        /\ sp = EmptyBucket
        /\ store = EmptyStore
        /\ UsersGetGUID(store, "d1") = "" /\ UsersGetDN(store, "g1") = ""

\* Sync has returned from the scenario, having called Del on the SP for g1
C11_Witness ==
    /\ Scenario11 /\ SyncDone /\ failed = NoFailure
    /\ spLog.calls = {<<"Del", "g1">>}

HistUnknownBefore ==
    /\ UsersGetGUID(hist.store0, hist.dn) = ""
    /\ Uid(hist.dn) \notin Range(hist.sp0)

GaveUpAt(calls) ==
    /\ failed.last.at \in calls
    /\ failed.last.mts = group.mts
    /\ failed.last.dn \in group.members

\* C13 (as stated): an Add(dn) of the event loop given up at a failed IdP.Fetch
\* or SP.Add is made good by a later tick.  Stated on the states in which nothing
\* is pending and the checker has seen the group as it is: there dn is on the SP
\* and bound in the store.
C13_NextTickReconverges ==
    (Quiescent /\ GaveUpAt({"fetch", "sp"})) =>
        /\ Uid(failed.last.dn) \in Range(sp)
        /\ UsersGetGUID(store, failed.last.dn) # ""

\* an Add for dn is under way in the event loop or an event adding dn is queued
AddPending(dn) ==
    \/ op.t3.pc \in {"add_fetch", "add_sp", "add_store"} /\ op.t3.dn = dn
    \/ t2.pc = "forward" /\ dn \in t2.added
    \/ chk.pc = "send" /\ dn \in chk.after \ chk.before

\* C14: an event-loop Add whose SP.Add failed ends there (it never reaches the
\* store write); and when it was given up after Sync, with the checker having seen
\* the group's current modifyTimestamp and nothing else queued, then as long as
\* the modifyTimestamp stays the same no event adds dn again and dn's user stays
\* off the SP.
C14_NoRefire ==
    /\ op.t3.pc = "add_store" => op.t3.guid # ""
    /\ (/\ failed.last.at = "sp" /\ failed.last.synced /\ failed.last.seen
        /\ ~failed.last.onSp /\ failed.last.mts = group.mts) =>
           /\ ~AddPending(failed.last.dn)
           /\ Uid(failed.last.dn) \notin Range(sp)
           /\ chk.prev.mts = group.mts /\ chk.pc = "idle"

\* the event loop gave up Add(dn) at a failed SP.Add; dn is a member, the group
\* has not changed since and nothing is pending
C14_Witness ==
    /\ Quiescent /\ GaveUpAt({"sp"})
    /\ failed.last.synced /\ failed.last.seen /\ ~failed.last.onSp
    /\ Uid(failed.last.dn) \notin Range(sp)

\* the run started with an orphan: the live SP held dn's user under g, the store
\* bound neither dn nor g, and dn was in the group
Orphan(dn, g) ==
    /\ ~dryRun
    /\ dn \in input.G
    /\ g \in DOMAIN input.S /\ input.S[g] = Uid(dn)
    /\ UsersGetGUID(input.M, dn) = "" /\ UsersGetDN(input.M, g) = ""

SopReturnedOk(kind) == sop.pc = "idle" /\ sop.res = "ok" /\ sop.kind = kind

\* C16: after Users.Add(dn, user) returned nil, GetGUID(dn) is user.id, GetDN(user.id)
\* is dn and List holds the user; after Users.Delete of (dn, guid) returned nil,
\* GetGUID(dn) and GetDN(guid) are "" and List holds no user with that id.
C16_AddThenDeleteReads ==
    /\ SopReturnedOk("Add") =>
          /\ UsersGetGUID(store, sop.dn) = sop.guid
          /\ UsersGetDN(store, sop.guid) = sop.dn
          /\ SUser(sop.guid) \in Range(UsersList(store))
    /\ SopReturnedOk("Delete") =>
          /\ UsersGetGUID(store, sop.dn) = ""
          /\ UsersGetDN(store, sop.guid) = ""
          /\ \A u \in Range(UsersList(store)) : u.id # sop.guid

\* a Delete of (dn, guid) has returned nil on a store in which an Add had bound them
C16_Witness ==
    /\ SopReturnedOk("Delete")
    /\ sop.guid # "" /\ UsersGetGUID(sop.pre, sop.dn) = sop.guid
    /\ UsersGetDN(sop.pre, sop.guid) = sop.dn
    /\ SUser(sop.guid) \in Range(UsersList(sop.pre))

\* the index GetGUID / GetDN reads, in the content the last read saw
ReadIndex(call, view) == IF call.fn = "GetGUID" THEN view.dns ELSE view.guids

\* C17: a GetGUID(dn) or GetDN(guid) whose read transaction opened, for a key
\* with no mapping, returns "" and a nil error; and no read changes the store.
C17_AbsentIsEmpty ==
    [][obs' # obs =>
          /\ store' = store
          /\ (~obs'.call.ioErr /\ obs'.call.arg \notin DOMAIN ReadIndex(obs'.call, store)) =>
                 obs'.call.ret = [val |-> "", err |-> FALSE]]_vars

\* GetDN("g1") has returned "" on a store that holds a binding, for another GUID
C17_Witness ==
    /\ obs.call.fn = "GetDN" /\ obs.call.arg = "g1" /\ ~obs.call.ioErr
    /\ obs.view = store /\ DOMAIN store.guids = {"g2"}
    /\ obs.call.ret = [val |-> "", err |-> FALSE]

\* C18 (as stated): once Stop has returned on the IdP adapter, the watcher is
\* stopped, the connection is closed, and the Added and the Removed streams are
\* closed.
C18_StopClosesStreams ==
    idp.stopped => /\ idp.w = "stopped" /\ idp.conn = "closed"
                   /\ idp.added = "closed" /\ idp.removed = "closed"

\* after Stop, everything that was queued has been handled: the checker holds
\* no event, handleUpdates and bridge.run each wait in their select
Drained ==
    /\ idp.stopped /\ chk.pc = "idle"
    /\ t2.pc = "select" /\ op.t3.pc = "none"

\* C19 (as stated): after Stop the checker's event channel is closed, and once
\* handleUpdates and bridge.run have drained what was queued they have exited.
\* Stated on the states in which nothing is left to drain: a loop that has not
\* exited there never exits.
C19_LoopsExitAfterStop ==
    Drained => /\ idp.updates = "closed"
               /\ t2.pc = "exited" /\ op.t3.pc = "exited"

\* C20 (as stated): when the termination signal arrives while the event loop is
\* inside Add or Del, the store write that follows the SP request is made
\* before the store is closed and the process exits: the store is never closed
\* on an operation whose SP request succeeded and whose store write is not made.
C20_StoreWriteBeforeClose ==
    ~DbOpen => op.t3.pc \notin {"add_store", "del_store"}

\* C21: the event loop observes events in tick order: handleUpdates takes up an
\* event only when every DN of the event before has been received by
\* bridge.run, and the event it takes up is of a later tick.
C21_TickOrder ==
    [][t2'.tag # t2.tag =>
         /\ t2.added \cup t2.removed = {}
         /\ idp.buf.added = <<>> /\ idp.buf.removed = <<>>
         /\ t2'.last = t2.tag /\ t2'.tag > t2.tag]_vars

\* bridge.run has just received the DN of the second of two events: the event
\* of tick 2 followed that of tick 1 and handleUpdates has sent all of it
C21_Witness ==
    /\ t2.last = 1 /\ t2.tag = 2 /\ t2.pc = "select"
    /\ op.t3.pc \in {"add_fetch", "del_get"}

\* C22 (as stated): an SP user whose GUID is not bound and whose userName has no
\* directory entry is left on the SP and gets no binding, and Sync does not
\* crash on it.
C22_UnknownUserKept ==
    \A g \in DOMAIN input.S :
        (UsersGetDN(input.M, g) = "" /\ FetchUID(input.S[g]) = {}) =>
            /\ main.pc # "panic"
            /\ g \in DOMAIN sp
            /\ UsersGetDN(store, g) = ""

\* C23 (as stated): List on the mapping store and List on the fake SP return
\* one element for each stored record and no zero-value slot.  Stated where
\* Sync has just listed the fake SP.
C23_ListExact ==
    (dryRun /\ main.pc = "search") =>
        /\ Len(FakeList(sp)) = Cardinality(DOMAIN sp)
        /\ Range(FakeList(sp)) = SpUsers(sp)
        /\ main.todoSp = SpUsers(sp)
        /\ Len(UsersList(store)) = Cardinality(DOMAIN store.members)
        /\ Range(UsersList(store)) = {jsonUnmarshal(store.members[k]) : k \in DOMAIN store.members}

\* the events the checker has published and handleUpdates has not taken, and
\* the DNs handleUpdates has sent and bridge.run has not received: what the
\* channels hold, and the item of a sender blocked in its send
EventsInFlight == Len(idp.buf.updates) + (IF chk.pc = "send" THEN 1 ELSE 0)
DnsInFlight ==
    Len(idp.buf.added) + Len(idp.buf.removed) + (IF t2.pc = "forward" THEN 1 ELSE 0)

\* C24: the channels buffer nothing: at every moment at most one event is
\* published and not yet taken by handleUpdates, and at most one DN is sent and
\* not yet received by bridge.run.
C24_NoBuffering ==
    /\ EventsInFlight <= 1
    /\ DnsInFlight <= 1

\* the checker is blocked sending an event while handleUpdates is blocked
\* sending a DN of the event before
C24_Witness ==
    /\ chk.pc = "send" /\ t2.pc = "forward"
    /\ EventsInFlight = 1 /\ DnsInFlight = 1

\* C25: the first result a checker is given only sets the baseline: the checker
\* goes from uninitialized to tracking that result and publishes no event,
\* whatever the members of the group are.
C25_FirstSetsBaseline ==
    (chkLog.call.made /\ ~chkLog.call.init) =>
        /\ ~chkLog.call.send /\ ~chkLog.call.panic
        /\ chk.init /\ chk.prev = chkLog.call.r
        /\ EventsInFlight = 0

\* the first result given to the checker is a group with members
C25_Witness ==
    /\ chkLog.call.made /\ ~chkLog.call.init
    /\ chkLog.call.r.n >= 1 /\ chkLog.call.r.members # {}

\* C26: a tracking checker given a result whose number of entries differs from
\* that of the previous result replaces the previous result by the new one and
\* publishes no event.
C26_CountChangeSilent ==
    (chkLog.call.made /\ chkLog.call.init /\ chkLog.call.prev.n # chkLog.call.r.n) =>
        /\ ~chkLog.call.send /\ ~chkLog.call.panic
        /\ chk.prev = chkLog.call.r
        /\ chk.pc = "idle"

\* the number of entries changed, and so did the members and the timestamp
C26_Witness ==
    /\ chkLog.call.made /\ chkLog.call.init
    /\ chkLog.call.prev.n # chkLog.call.r.n
    /\ chkLog.call.prev.n >= 1 /\ chkLog.call.r.n >= 1
    /\ chkLog.call.prev.members # chkLog.call.r.members
    /\ chkLog.call.prev.mts # chkLog.call.r.mts

\* the last Check was given, by a tracking checker, a result with as many
\* entries as the previous one, and at least one
SameCount ==
    /\ chkLog.call.made /\ chkLog.call.init
    /\ chkLog.call.prev.n = chkLog.call.r.n /\ chkLog.call.r.n >= 1

\* C27: Check publishes an event if and only if the checker is tracking, the
\* entry counts of the previous and the new result are equal and the
\* modifyTimestamps of their first entries differ; the event carries the two
\* first entries and the checker then tracks the new result.  With equal
\* timestamps nothing is published and the previous result is kept.  No tick
\* publishes more than one event.
C27_EventIffTimestampChanged ==
    chkLog.call.made =>
        /\ chkLog.call.send <=> (SameCount /\ chkLog.call.prev.mts # chkLog.call.r.mts)
        /\ chkLog.call.send =>
              /\ chk.prev = chkLog.call.r
              /\ chk.pc = "send" => /\ chk.before = chkLog.call.prev.members
                                    /\ chk.after = chkLog.call.r.members
        /\ (SameCount /\ chkLog.call.prev.mts = chkLog.call.r.mts) =>
              /\ ~chkLog.call.send
              /\ chk.prev = chkLog.call.prev
        /\ EventsInFlight <= 1

\* an event was published and waits to be taken
C27_Witness ==
    /\ SameCount /\ chkLog.call.send /\ chk.pc = "send"
    /\ chk.before # chk.after

\* the last Check found the timestamp unchanged
C27_WitnessNoChange ==
    /\ SameCount /\ chkLog.call.prev.mts = chkLog.call.r.mts
    /\ ~chkLog.call.send

\* the poll has converged: the group is there, the checker tracks it as it is
\* now, and nothing is pending anywhere between the checker and bridge.run
Converged ==
    /\ Quiescent /\ group.n = 1
    /\ EventsInFlight = 0 /\ DnsInFlight = 0

\* C28 (as stated): the membership changes a Check passed over because the
\* number of entries had changed too are emitted once the counts are equal
\* again.  Stated on the converged states, from which no poll emits anything
\* more: there, the baseline with the DNs received on Added put in and those
\* received on Removed taken out is the group's member list.
C28_SkippedChangeEmitted ==
    (Converged /\ chkLog.skipped /\ ~failed.transient) => chkLog.told = group.members

\* without a change of the number of entries, every change is emitted
NoSkipAllEmitted ==
    (Converged /\ ~chkLog.skipped /\ ~failed.transient) => chkLog.told = group.members

\* the event loop's Add takes the step of its SP.Add call, and the call fails
AddSpFails ==
    /\ op.t3.pc = "add_sp" /\ op'.t3 # op.t3
    /\ ~(op'.t3.pc = "add_store" /\ op'.t3.guid # "")

\* the event loop's Add takes the step of its IdP.Fetch call, and the call fails
AddFetchFails ==
    /\ op.t3.pc = "add_fetch" /\ op'.t3 # op.t3
    /\ op'.t3.pc # "add_sp"

\* C29: when SP.Add fails, Add ends there and the mapping store is as it was
\* when Add began; when IdP.Fetch fails, Add ends there with neither the SP nor
\* the mapping store touched.
C29_AddAbortsOnFailure ==
    [][/\ AddSpFails => (op'.t3 = NoOp /\ store' = store)
       /\ AddFetchFails => (op'.t3 = NoOp /\ store' = store /\ sp' = sp)]_vars

\* Add(dn) was given up at a failed SP.Add and dn has no binding
C29_Witness ==
    /\ failed.last.at = "sp" /\ op.t3 = NoOp
    /\ UsersGetGUID(store, failed.last.dn) = ""

\* Add(dn) was given up at a failed IdP.Fetch
C29_WitnessFetch ==
    /\ failed.last.at = "fetch" /\ op.t3 = NoOp
    /\ UsersGetGUID(store, failed.last.dn) = ""

\* C30 (as stated): Del(dn) for a DN with no GUID in the mapping store stops
\* after the lookup: it goes on neither to SP.Delete nor to the store write.
C30_UnboundDelStops ==
    \A p \in Procs : op[p].pc \in {"del_sp", "del_store"} => op[p].guid # ""

\* C31: within one event adds come before removes: when bridge.run receives a
\* DN on Removed, handleUpdates holds no added DN of the event any more, none is
\* in a channel, and the Add of the last one has returned.
C31_AddsBeforeRemoves ==
    [][(op.t3.pc = "none" /\ op'.t3.pc = "del_get") =>
          /\ t2.added = {} /\ t2'.added = {}
          /\ idp.buf.added = <<>>
          /\ op.t3 = NoOp]_vars

\* one event added d2 and removed d1: d2's user is on the SP and bridge.run has
\* just received d1 on Removed
C31_Witness ==
    /\ input.G = {"d1"} /\ "u2" \notin Range(input.S)
    /\ t2.last = 0 /\ t2.tag = 2
    /\ group.members = {"d2"} /\ "u2" \in Range(sp)
    /\ op.t3.pc = "del_get" /\ op.t3.dn = "d1"

\* C32 (as stated): when the group search finds no entry at startup, Sync
\* returns an error instead of crashing, and neither the SP nor the mapping
\* store is changed.
C32_NoGroupIsError ==
    group.n = 0 =>
        /\ main.pc \in {"list", "search", "fatal"}
        /\ sp = input.S /\ store = input.M

\* C33 (as stated): whatever results a checker is given, two results in a row
\* with no entry included, Check returns without a run-time fault.
C33_CheckNeverFaults ==
    chkLog.call.made => (~chkLog.call.panic /\ main.pc # "panic")

\* C34: for any before / after member lists B and A, the added and the removed
\* list of computeChanges have no DN in common and no DN twice, B without the
\* removed DNs and with the added DNs is A as a set, and when A and B are the
\* same set both lists are empty.
C34_DeltaAppliesCleanly ==
    cc.pc = "done" =>
        /\ Range(cc.added) \cap Range(cc.removed) = {}
        /\ Len(cc.added) = Cardinality(Range(cc.added))
        /\ Len(cc.removed) = Cardinality(Range(cc.removed))
        /\ (Range(cc.before) \ Range(cc.removed)) \cup Range(cc.added) = Range(cc.after)
        /\ Range(cc.before) = Range(cc.after) => (cc.added = <<>> /\ cc.removed = <<>>)

\* a call on lists with repeated members that share a DN, one DN added and one
\* removed
C34_Witness ==
    /\ cc.pc = "done"
    /\ Len(cc.before) > Cardinality(Range(cc.before))
    /\ Len(cc.after) > Cardinality(Range(cc.after))
    /\ Range(cc.before) \cap Range(cc.after) # {}
    /\ Len(cc.added) = 1 /\ Len(cc.removed) = 1

\* a call on two lists that differ as lists and are the same set
C34_WitnessSameSet ==
    /\ cc.pc = "done"
    /\ cc.before # cc.after /\ Range(cc.before) = Range(cc.after)
    /\ Len(cc.before) # Len(cc.after)
    /\ cc.added = <<>> /\ cc.removed = <<>>

\* C35: as long as no poll has found the number of entries changed, the
\* members of the checker's baseline with the deltas of all events published
\* so far applied in order are the members of the checker's previous result:
\* what changed while ticks were blocked is in the next delta.
C35_DeltasSumToPrev ==
    (chk.init /\ ~chkLog.skipped) => chkLog.pub = chk.prev.members

\* the same without the condition on the number of entries
C35_DeltasSumToPrevAlways ==
    chk.init => chkLog.pub = chk.prev.members

\* the last event published carries two modifications of the group, made
\* between two polls, in one delta
C35_Witness ==
    /\ chkLog.call.send /\ ~chkLog.skipped
    /\ chkLog.call.r.mts = chkLog.call.prev.mts + 2
    /\ chkLog.call.r.members # chkLog.call.prev.members
    /\ chkLog.pub = chkLog.call.r.members

\* C36 (as stated): when Sync has returned, no call having failed, every DN
\* with an entry in the dn -> guid index is a member of the group Sync read,
\* whatever the SP list, the group and the store were.
C36_NoStaleBinding ==
    (SyncDone /\ failed = NoFailure) => DOMAIN store.dns \subseteq group.members

\* C37 (as stated): when Sync has returned, no call having failed, GetGUID of
\* every member DN of the group is the id of a user on the SP: a user Sync
\* created again on the SP is bound under the GUID the SP gave it.
C37_BoundGuidOnSp ==
    (SyncDone /\ failed = NoFailure) =>
        \A dn \in group.members : UsersGetGUID(store, dn) \in DOMAIN sp

\* C38 (as stated): after any sequence of reconciler operations, no call
\* having failed and no Add or Del under way, the two indices are inverses of
\* each other: GetGUID(dn) = g exactly when GetDN(g) = dn.
C38_IndicesInverse ==
    (failed = NoFailure /\ \A p \in Procs : op[p] = NoOp) =>
        \A dn \in DNs, g \in GUIDs :
            UsersGetGUID(store, dn) = g <=> UsersGetDN(store, g) = dn

\* the group was modified once, after Sync had read it and before the checker
\* took its baseline: Sync read other members than the group has now, and the
\* checker, which tracks the group as it is, has never published an event
ChangedInWindow ==
    /\ group.mts = 1 /\ main.memberDns # group.members
    /\ chk.init /\ chk.prev.mts = 1 /\ t2.tag = 0

\* C39 (as stated): a DN added to or removed from the group after Sync has read
\* the group and before the checker has taken its baseline is applied to the
\* SP in the end.  Stated on the states in which nothing is pending and no call
\* has failed: there the user of an added DN is on the SP and that of a
\* removed DN is not.
C39_WindowChangeApplied ==
    (Quiescent /\ failed = NoFailure /\ ChangedInWindow) =>
        \A dn \in DNs :
            /\ dn \in group.members \ main.memberDns => Uid(dn) \in Range(sp)
            /\ dn \in main.memberDns \ group.members => Uid(dn) \notin Range(sp)

\* C40: the pipeline does not deadlock: an event the checker is blocked sending
\* is taken in the end (the send completes and the checker can poll again),
\* handleUpdates gets every DN of the event delivered and returns to its
\* select, and bridge.run finishes the Add or Del of every DN it received.
C40_PipelineProgress ==
    /\ (chk.pc = "send") ~> (chk.pc = "idle")
    /\ (t2.pc = "forward") ~> (t2.pc = "select")
    /\ (op.t3.pc # "none") ~> (op.t3.pc = "none")

\* the checker is blocked sending the event of the second modification, because
\* handleUpdates is blocked sending the DN of the first one, which bridge.run
\* has yet to receive
C40_Witness ==
    /\ chk.pc = "send" /\ chk.prev.mts = 2
    /\ t2.pc = "forward" /\ t2.tag = 1 /\ t2.added \cup t2.removed # {}
    /\ op.t3 = NoOp

====
